---- MODULE Spec2Model ----
(***************************************************************************)
(* A model of the two BPE tokenizers of the repository:                    *)
(*   BPE_Tokenizer      (src/tokenizer_BPE.py)   character alphabet        *)
(*   ByteBPE_Tokenizer  (src/Byte_level_BPE.py)  byte alphabet             *)
(* The two classes share their fields and their training / segmentation    *)
(* code; they differ in how a line is cut into units, in the end-of-word   *)
(* marker and in decode.  The variable "variant" says which class the      *)
(* instance is.                                                            *)
(*                                                                         *)
(* A Python str is a sequence of code points, a Python bytes object a      *)
(* sequence of byte values.  A symbol of the BPE vocabulary is such a      *)
(* sequence; a token (a key of token_to_id) is a record [t, s] with t the  *)
(* Python type ("str" or "bytes"), because a str never equals a bytes.     *)
(* A dict is a sequence of entries in insertion order (Python >= 3.7).     *)
(***************************************************************************)
EXTENDS Integers, Sequences, FiniteSets, TLC

\* ------------------------------------------------------------------ bounds
\* Largest merge budget num_merges an instance is constructed with.
MaxMerges == 4
\* Largest number of lines of a training corpus.
MaxLines == 2
\* Largest number of train calls on one instance.
MaxTrains == 2
\* Longest text handed to encode.
MaxTextLen == 3
\* Longest id sequence handed to decode.
MaxIds == 2

\* ------------------------------------------------------------------ inputs
\* Candidate corpus lines (code points):
\*   "aab aab ba", "Ba<NBSP> ba", "<pad> <pad>", "e-acute b", " "
Lines ==
  { <<97, 97, 98, 32, 97, 97, 98, 32, 98, 97>>,
    <<66, 97, 160, 32, 98, 97>>,
    <<60, 112, 97, 100, 62, 32, 60, 112, 97, 100, 62>>,
    <<233, 32, 98>>,
    <<32>> }

\* Lines that are a corpus on their own only:
\*   "aaa aaa", "a a a a</w> </w> </w>"
SingleLines ==
  { <<97, 97, 97, 32, 97, 97, 97>>,
    <<97, 32, 97, 32, 97, 32, 97, 60, 47, 119, 62, 32,
      60, 47, 119, 62, 32, 60, 47, 119, 62>> }

\* Code points a text handed to encode is made of: 'A', 'b', ' ', e-acute.
TextAlphabet == {65, 98, 32, 233}

RECURSIVE SeqsUpTo(_, _)
SeqsUpTo(S, n) ==
  IF n = 0 THEN {<<>>}
  ELSE LET shorter == SeqsUpTo(S, n - 1)
       IN  shorter \cup {Append(s, x) : s \in {t \in shorter : Len(t) = n - 1}, x \in S}

Corpora == SeqsUpTo(Lines, MaxLines) \cup {<<line>> : line \in SingleLines}
\* A text longer than MaxTextLen that encode is handed as well: "AAAA".
LongTexts == {<<65, 65, 65, 65>>}
Texts == SeqsUpTo(TextAlphabet, MaxTextLen) \cup LongTexts

\* ------------------------------------------------------------ sequences
Range(s) == {s[i] : i \in DOMAIN s}
Last(s) == s[Len(s)]
SetMax(S) == CHOOSE x \in S : \A y \in S : y <= x
SetMin(S) == CHOOSE x \in S : \A y \in S : x <= y

RECURSIVE Flatten(_)
\* "".join(parts) / b"".join(parts)
Flatten(parts) ==
  IF parts = <<>> THEN <<>> ELSE Head(parts) \o Flatten(Tail(parts))

\* a < b for two str (by code point) or two bytes (by byte value)
LexLess(a, b) ==
  \E k \in 1..(SetMin({Len(a), Len(b)}) + 1) :
     /\ \A j \in 1..(k - 1) : a[j] = b[j]
     /\ \/ k > Len(a) /\ k <= Len(b)
        \/ k <= Len(a) /\ k <= Len(b) /\ a[k] < b[k]

RECURSIVE sorted(_)
\* sorted(symbol_set)
sorted(S) ==
  IF S = {} THEN <<>>
  ELSE LET m == CHOOSE x \in S : \A y \in S \ {x} : LexLess(x, y)
       IN  <<m>> \o sorted(S \ {m})

\* ------------------------------------------------------------ normalize
\* unicodedata.normalize("NFKC", .) on the code points of the model:
\* ASCII and U+00E9 are NFKC-stable, U+00A0 (no-break space) becomes U+0020.
Nfkc(c) == IF c = 160 THEN 32 ELSE c
\* str.lower() on the code points of the model
Lower(c) == IF c >= 65 /\ c <= 90 THEN c + 32 ELSE c
IsSpace(c) == c = 32

RECURSIVE LStrip(_)
LStrip(s) == IF s # <<>> /\ IsSpace(Head(s)) THEN LStrip(Tail(s)) ELSE s
RECURSIVE RStrip(_)
RStrip(s) ==
  IF s # <<>> /\ IsSpace(Last(s)) THEN RStrip(SubSeq(s, 1, Len(s) - 1)) ELSE s
RECURSIVE Collapse(_)
\* re.sub(r"\s+", " ", s)
Collapse(s) ==
  IF s = <<>> THEN <<>>
  ELSE IF IsSpace(Head(s))
       THEN <<32>> \o Collapse(LStrip(s))
       ELSE <<Head(s)>> \o Collapse(Tail(s))

normalize(text) ==
  LET nfkc    == [i \in DOMAIN text |-> Nfkc(text[i])]
      lowered == [i \in DOMAIN nfkc |-> Lower(nfkc[i])]
  IN  Collapse(RStrip(LStrip(lowered)))

RECURSIVE split(_)
\* str.split(): the maximal runs of non-whitespace
split(s) ==
  LET t == LStrip(s)
  IN  IF t = <<>> THEN <<>>
      ELSE LET ends == {k \in 1..Len(t) : k = Len(t) \/ IsSpace(t[k + 1])}
               e    == SetMin(ends)
           IN  <<SubSeq(t, 1, e)>> \o split(SubSeq(t, e + 1, Len(t)))

RECURSIVE Utf8Encode(_)
\* str.encode("utf-8") for code points below U+0800 (one or two bytes)
Utf8Encode(s) ==
  IF s = <<>> THEN <<>>
  ELSE LET c == Head(s)
       IN  (IF c < 128 THEN <<c>> ELSE <<192 + (c \div 64), 128 + (c % 64)>>)
           \o Utf8Encode(Tail(s))

RECURSIVE Utf8Decode(_)
\* bytes.decode("utf-8", errors="replace") on the bytes Utf8Encode produces:
\* a two-byte lead (0xC2..0xDF) followed by a continuation byte is one code
\* point; a lead without continuation, or a stray continuation byte, is U+FFFD.
Utf8Decode(b) ==
  IF b = <<>> THEN <<>>
  ELSE LET x == Head(b)
       IN  IF x < 128 THEN <<x>> \o Utf8Decode(Tail(b))
           ELSE IF /\ x >= 194 /\ x <= 223
                   /\ Len(b) >= 2 /\ b[2] >= 128 /\ b[2] <= 191
                THEN <<(x - 192) * 64 + (b[2] - 128)>> \o Utf8Decode(Tail(Tail(b)))
                ELSE <<65533>> \o Utf8Decode(Tail(b))

\* ---------------------------------------------------------------- tokens
Str(s) == [t |-> "str", s |-> s]
Bytes(s) == [t |-> "bytes", s |-> s]
PAD == Str(<<60, 112, 97, 100, 62>>)
UNK == Str(<<60, 117, 110, 107, 62>>)
BOS == Str(<<60, 98, 111, 115, 62>>)
EOS == Str(<<60, 101, 111, 115, 62>>)
SPECIAL_TOKENS == <<PAD, UNK, BOS, EOS>>
\* "</w>"
MARKER == <<60, 47, 119, 62>>

VARIABLES
  variant,        \* "char": BPE_Tokenizer, "byte": ByteBPE_Tokenizer
  num_merges,     \* self.num_merges
  token_to_id,    \* self.token_to_id, a function token -> id
  id_to_token,    \* self.id_to_token, a function id -> token
  _bpe_vocab,     \* self._bpe_vocab, entries [word, freq] in insertion order
  merges,         \* self.merges
  pair2rank,      \* self.pair2rank, a function pair -> rank
  pc,             \* where the running train call is: "idle", "loop", "build"
  iter,           \* iterations of train's for loop started so far
  corpus,         \* the argument of the last train call
  pair_counts,    \* train's local pair_counts, entries [pair, count] in insertion order
  best_pair,      \* train's local best_pair, <<pair>> once assigned
  train_calls,    \* number of train calls made on the instance
  seen_atoms,     \* atomic symbols of every corpus trained on so far
  op              \* the encode / decode call waiting to be returned to its caller

vars == <<variant, num_merges, token_to_id, id_to_token, _bpe_vocab, merges,
          pair2rank, pc, iter, corpus, pair_counts, best_pair, train_calls,
          seen_atoms, op>>

\* The type of a symbol of the instance, as a token.
Tok(sym) == IF variant = "char" THEN Str(sym) ELSE Bytes(sym)

\* ------------------------------------------------------------------ dicts
EmptyMap == [x \in {} |-> 0]

\* d[key] += n on a defaultdict(int) whose entries are [k, v]
DictAdd(d, key, n) ==
  IF \E i \in DOMAIN d : d[i].k = key
  THEN LET i == CHOOSE j \in DOMAIN d : d[j].k = key
       IN  [d EXCEPT ![i].v = @ + n]
  ELSE Append(d, [k |-> key, v |-> n])

\* ---------------------------------------------------------------- training
\* The symbols of one unit: list(word) + ["</w>"], or [bytes([b]) for b in ...]
Atoms(unit) == [i \in DOMAIN unit |-> <<unit[i]>>]
WordSymbols(word) == Append(Atoms(word), MARKER)

RECURSIVE AddWords(_, _)
AddWords(d, words) ==
  IF words = <<>> THEN d
  ELSE AddWords(DictAdd(d, WordSymbols(Head(words)), 1), Tail(words))

RECURSIVE _get_bpe_vocab_from_corpus(_, _)
\* the loop over the corpus, d the bpe_vocab built so far
_get_bpe_vocab_from_corpus(d, lines) ==
  IF lines = <<>> THEN d
  ELSE LET norm == normalize(Head(lines))
           next == IF variant = "char"
                   THEN AddWords(d, split(norm))
                   ELSE LET symbols == Atoms(Utf8Encode(norm))
                        IN  IF symbols = <<>> THEN d ELSE DictAdd(d, symbols, 1)
       IN  _get_bpe_vocab_from_corpus(next, Tail(lines))

RECURSIVE WordPairs(_, _, _, _)
\* the inner loop of _get_pair_stats over one word, from position i
WordPairs(pcs, word, freq, i) ==
  IF i > Len(word) - 1 THEN pcs
  ELSE WordPairs(DictAdd(pcs, <<word[i], word[i + 1]>>, freq), word, freq, i + 1)

RECURSIVE PairStatsFrom(_, _)
PairStatsFrom(pcs, entries) ==
  IF entries = <<>> THEN pcs
  ELSE LET e == Head(entries)
       IN  PairStatsFrom(IF Len(e.k) < 2 THEN pcs ELSE WordPairs(pcs, e.k, e.v, 1),
                         Tail(entries))

_get_pair_stats(bpe_vocab) == PairStatsFrom(<<>>, bpe_vocab)

\* A plausible slip: ties go to the pair reached last.
PyMaxKeyLast(pcs) ==
  LET i == CHOOSE j \in DOMAIN pcs :
             /\ \A m \in DOMAIN pcs : pcs[m].v <= pcs[j].v
             /\ \A m \in DOMAIN pcs : m > j => pcs[m].v < pcs[j].v
  IN  pcs[i].k

\* max(pair_counts, key=pair_counts.get): the first key, in the dict's
\* iteration order, whose count no other key's exceeds
PyMaxKey(pcs) ==
  LET i == CHOOSE j \in DOMAIN pcs :
             /\ \A m \in DOMAIN pcs : pcs[m].v <= pcs[j].v
             /\ \A m \in DOMAIN pcs : m < j => pcs[m].v < pcs[j].v
  IN  pcs[i].k

\* pair_counts[pair]
CountOf(pcs, pair) == pcs[CHOOSE j \in DOMAIN pcs : pcs[j].k = pair].v

RECURSIVE MergeWordStepOne(_, _, _)
\* A plausible slip: after a match the position advances by one, not two.
MergeWordStepOne(pair, word, i) ==
  IF i > Len(word) THEN <<>>
  ELSE IF i < Len(word) /\ word[i] = pair[1] /\ word[i + 1] = pair[2]
       THEN <<pair[1] \o pair[2]>> \o MergeWordStepOne(pair, word, i + 1)
       ELSE <<word[i]>> \o MergeWordStepOne(pair, word, i + 1)

RECURSIVE MergeWord(_, _, _)
\* the while loop rewriting one word, from position i
MergeWord(pair, word, i) ==
  IF i > Len(word) THEN <<>>
  ELSE IF i < Len(word) /\ word[i] = pair[1] /\ word[i + 1] = pair[2]
       THEN <<pair[1] \o pair[2]>> \o MergeWord(pair, word, i + 2)
       ELSE <<word[i]>> \o MergeWord(pair, word, i + 1)

RECURSIVE MergeFrom(_, _, _)
MergeFrom(new, pair, entries) ==
  IF entries = <<>> THEN new
  ELSE MergeFrom(DictAdd(new, MergeWord(pair, Head(entries).k, 1), Head(entries).v),
                 pair, Tail(entries))

_merge_vocab(pair, bpe_vocab) == MergeFrom(<<>>, pair, bpe_vocab)

\* {pair: rank for rank, pair in enumerate(self.merges)}: a later entry of
\* merges overwrites an earlier equal one
BuildPair2Rank(ms) ==
  [p \in Range(ms) |-> SetMax({i \in DOMAIN ms : ms[i] = p}) - 1]

SymbolSet(bpe_vocab) ==
  UNION {Range(bpe_vocab[i].k) : i \in DOMAIN bpe_vocab}

\* list(self.SPECIAL_TOKENS) + sorted(symbol_set)
VocabList(bpe_vocab) ==
  LET syms == sorted(SymbolSet(bpe_vocab))
  IN  SPECIAL_TOKENS \o [i \in DOMAIN syms |-> Tok(syms[i])]

\* the enumerate loop: token_to_id[token] = idx, a later idx overwriting
BuildTokenToId(vl) ==
  [tok \in Range(vl) |-> SetMax({i \in DOMAIN vl : vl[i] = tok}) - 1]
\* the enumerate loop: id_to_token[idx] = token
BuildIdToToken(vl) == [idx \in 0..(Len(vl) - 1) |-> vl[idx + 1]]

\* The atomic symbols of a corpus.
CorpusAtoms(lines) ==
  UNION { LET norm == normalize(lines[i])
          IN  IF variant = "char"
              THEN {<<c>> : c \in UNION {Range(w) : w \in Range(split(norm))}}
              ELSE {<<b>> : b \in Range(Utf8Encode(norm))}
          : i \in DOMAIN lines }

NoCall == [name |-> "none", arg |-> <<>>, raised |-> FALSE, out |-> <<>>]

\* ------------------------------------------------------------------- Init
\* __init__(num_merges)
Init ==
  /\ variant \in {"char", "byte"}
  /\ num_merges \in 0..MaxMerges
  /\ token_to_id = EmptyMap
  /\ id_to_token = EmptyMap
  /\ _bpe_vocab = <<>>
  /\ merges = <<>>
  /\ pair2rank = EmptyMap
  /\ pc = "idle"
  /\ iter = 0
  /\ corpus = <<>>
  /\ pair_counts = <<>>
  /\ best_pair = <<>>
  /\ train_calls = 0
  /\ seen_atoms = {}
  /\ op = NoCall

\* ---------------------------------------------------------------- train
\* train(corpus), up to the for loop
TrainBegin ==
  /\ pc = "idle" /\ op.name = "none"
  /\ train_calls < MaxTrains
  /\ \E c \in Corpora :
       /\ corpus' = c
       /\ _bpe_vocab' = _get_bpe_vocab_from_corpus(<<>>, c)
       /\ seen_atoms' = seen_atoms \cup CorpusAtoms(c)
  /\ pc' = "loop"
  /\ iter' = 0
  /\ pair_counts' = <<>>
  /\ best_pair' = <<>>
  /\ train_calls' = train_calls + 1
  /\ UNCHANGED <<variant, num_merges, token_to_id, id_to_token, merges, pair2rank, op>>

\* one iteration of the for loop that appends a merge
TrainMerge ==
  /\ pc = "loop" /\ iter < num_merges
  /\ LET pcs == _get_pair_stats(_bpe_vocab)
     IN  /\ pcs # <<>>
         /\ LET best == PyMaxKey(pcs)
            IN  /\ CountOf(pcs, best) >= 2
                /\ pair_counts' = pcs
                /\ best_pair' = <<best>>
                /\ merges' = Append(merges, best)
                /\ _bpe_vocab' = _merge_vocab(best, _bpe_vocab)
  /\ iter' = iter + 1
  /\ UNCHANGED <<variant, num_merges, token_to_id, id_to_token, pair2rank, pc,
                 corpus, train_calls, seen_atoms, op>>

\* the for loop ends: "if not pair_counts: break"
TrainBreakNoPairs ==
  /\ pc = "loop" /\ iter < num_merges
  /\ _get_pair_stats(_bpe_vocab) = <<>>
  /\ pair_counts' = <<>>
  /\ pc' = "build"
  /\ UNCHANGED <<variant, num_merges, token_to_id, id_to_token, _bpe_vocab, merges,
                 pair2rank, iter, corpus, best_pair, train_calls, seen_atoms, op>>

\* the for loop ends: "if pair_counts[best_pair] < 2: break"
TrainBreakSingleton ==
  /\ pc = "loop" /\ iter < num_merges
  /\ LET pcs == _get_pair_stats(_bpe_vocab)
     IN  /\ pcs # <<>>
         /\ CountOf(pcs, PyMaxKey(pcs)) < 2
         /\ pair_counts' = pcs
         /\ best_pair' = <<PyMaxKey(pcs)>>
  /\ pc' = "build"
  /\ UNCHANGED <<variant, num_merges, token_to_id, id_to_token, _bpe_vocab, merges,
                 pair2rank, iter, corpus, train_calls, seen_atoms, op>>

\* the for loop ends: range(self.num_merges) is exhausted
TrainExhausted ==
  /\ pc = "loop" /\ iter = num_merges
  /\ pc' = "build"
  /\ UNCHANGED <<variant, num_merges, token_to_id, id_to_token, _bpe_vocab, merges,
                 pair2rank, iter, corpus, pair_counts, best_pair, train_calls,
                 seen_atoms, op>>

\* train, after the for loop: pair2rank and the two id maps
TrainFinish ==
  /\ pc = "build"
  /\ pair2rank' = BuildPair2Rank(merges)
  /\ LET vocab_list == VocabList(_bpe_vocab)
     IN  /\ token_to_id' = BuildTokenToId(vocab_list)
         /\ id_to_token' = BuildIdToToken(vocab_list)
  /\ pc' = "idle"
  /\ iter' = 0
  /\ pair_counts' = <<>>
  /\ best_pair' = <<>>
  /\ UNCHANGED <<variant, num_merges, _bpe_vocab, merges, corpus, train_calls,
                 seen_atoms, op>>

\* ---------------------------------------------------------------- encode
\* the candidates of one pass of the segmentation loop, as <<rank, i>>
\* (the pair of a candidate is the one at position i)
Candidates(symbols) ==
  {<<pair2rank[<<symbols[i], symbols[i + 1]>>], i>> :
     i \in {j \in 1..(Len(symbols) - 1) :
              <<symbols[j], symbols[j + 1]>> \in DOMAIN pair2rank}}

\* min(candidates): tuples compare by rank, then by position
MinCandidate(cands) ==
  CHOOSE c \in cands :
    \A d \in cands : c[1] < d[1] \/ (c[1] = d[1] /\ c[2] <= d[2])

RECURSIVE MergeSymbols(_, _, _)
\* the inner while loop building new_symbols, from position i
MergeSymbols(bp, symbols, i) ==
  IF i > Len(symbols) THEN <<>>
  ELSE IF i < Len(symbols) /\ symbols[i] = bp[1] /\ symbols[i + 1] = bp[2]
       THEN <<symbols[i] \o symbols[i + 1]>> \o MergeSymbols(bp, symbols, i + 2)
       ELSE <<symbols[i]>> \o MergeSymbols(bp, symbols, i + 1)

\* A plausible slip: one pass of the loop only, no return to the candidates.
SegmentOnce(symbols) ==
  LET cands == Candidates(symbols)
  IN  IF cands = {} THEN symbols
      ELSE LET i  == MinCandidate(cands)[2]
               bp == <<symbols[i], symbols[i + 1]>>
           IN  MergeSymbols(bp, symbols, 1)

RECURSIVE Segment(_)
\* the "while True" loop of _encode_word / _encode_bytes
Segment(symbols) ==
  LET cands == Candidates(symbols)
  IN  IF cands = {} THEN symbols
      ELSE LET i  == MinCandidate(cands)[2]
               bp == <<symbols[i], symbols[i + 1]>>
           IN  Segment(MergeSymbols(bp, symbols, 1))

_encode_word(word) ==
  LET symbols == WordSymbols(word)
  IN  IF DOMAIN pair2rank = {} THEN symbols ELSE Segment(symbols)

_encode_bytes(byte_seq) ==
  LET symbols == Atoms(byte_seq)
  IN  IF DOMAIN pair2rank = {} THEN symbols ELSE Segment(symbols)

RECURSIVE EncodeWords(_)
\* for word in words: tokens.extend(self._encode_word(word))
EncodeWords(words) ==
  IF words = <<>> THEN <<>>
  ELSE _encode_word(Head(words)) \o EncodeWords(Tail(words))

\* the symbols encode puts between "<bos>" and "<eos>"
EncodeSymbols(text) ==
  LET norm == normalize(text)
  IN  IF variant = "char" THEN EncodeWords(split(norm))
      ELSE _encode_bytes(Utf8Encode(norm))

\* tokens = ["<bos>"] + tokens + ["<eos>"]
EncodeTokens(text) ==
  LET syms == EncodeSymbols(text)
  IN  <<BOS>> \o [i \in DOMAIN syms |-> Tok(syms[i])] \o <<EOS>>

\* A plausible slip: a missing token takes id 0, the default of a counter.
GetIdZero(tok, unk_id) ==
  IF tok \in DOMAIN token_to_id THEN token_to_id[tok] ELSE 0

\* self.token_to_id.get(tok, unk_id)
GetId(tok, unk_id) ==
  IF tok \in DOMAIN token_to_id THEN token_to_id[tok] ELSE unk_id

Raise(name, arg) == [name |-> name, arg |-> arg, raised |-> TRUE, out |-> <<>>]
Return(name, arg, value) ==
  [name |-> name, arg |-> arg, raised |-> FALSE, out |-> <<value>>]

\* A plausible slip: the empty-vocabulary guard is left out of encode and the
\* call returns the empty id list.
encodeUnguarded(text) ==
  IF DOMAIN token_to_id = {} THEN Return("encode", text, <<>>)
  ELSE LET tokens == EncodeTokens(text)
       IN  Return("encode", text,
                  [i \in DOMAIN tokens |-> GetId(tokens[i], token_to_id[UNK])])

\* encode(text): ValueError on an empty token_to_id; self.token_to_id["<unk>"]
\* is a KeyError when the key is missing
encode(text) ==
  IF DOMAIN token_to_id = {} THEN Raise("encode", text)
  ELSE IF UNK \notin DOMAIN token_to_id THEN Raise("encode", text)
  ELSE LET tokens == EncodeTokens(text)
           unk_id == token_to_id[UNK]
       IN  Return("encode", text,
                  [i \in DOMAIN tokens |-> GetId(tokens[i], unk_id)])

\* ---------------------------------------------------------------- decode
\* A plausible slip: "<unk>" is left out of the tokens decode drops.
IsSpecialNoUnk(tok) == tok \in {PAD, BOS, EOS}

\* t in special, special = set(self.SPECIAL_TOKENS)
IsSpecial(tok) == tok \in Range(SPECIAL_TOKENS)

\* tok.endswith("</w>")
EndsWithMarker(s) ==
  Len(s) >= Len(MARKER) /\ SubSeq(s, Len(s) - Len(MARKER) + 1, Len(s)) = MARKER

RECURSIVE WordsFrom(_, _, _)
\* the loop over tokens that closes a word at each "</w>"; the leftover
\* current_word is appended when it is not empty
WordsFrom(toks, words, current_word) ==
  IF toks = <<>>
  THEN IF current_word # <<>> THEN Append(words, current_word) ELSE words
  ELSE LET tok == Head(toks)
       IN  IF EndsWithMarker(tok)
           THEN WordsFrom(Tail(toks),
                          Append(words,
                                 current_word \o SubSeq(tok, 1, Len(tok) - 4)),
                          <<>>)
           ELSE WordsFrom(Tail(toks), words, current_word \o tok)

RECURSIVE join(_)
\* " ".join(words)
join(words) ==
  IF words = <<>> THEN <<>>
  ELSE IF Len(words) = 1 THEN words[1]
  ELSE words[1] \o <<32>> \o join(Tail(words))

\* [self.id_to_token.get(i, "<unk>") for i in ids] without the special tokens
DecodeTokens(ids) ==
  LET tokens == [k \in DOMAIN ids |->
                   IF ids[k] \in DOMAIN id_to_token THEN id_to_token[ids[k]] ELSE UNK]
  IN  SelectSeq(tokens, LAMBDA tok : ~IsSpecial(tok))

\* decode(ids): ValueError on an empty id_to_token; b"".join of a str piece
\* is a TypeError
decode(ids) ==
  IF DOMAIN id_to_token = {} THEN Raise("decode", ids)
  ELSE LET tokens == DecodeTokens(ids)
           pieces == [k \in DOMAIN tokens |-> tokens[k].s]
       IN  IF variant = "char"
           THEN Return("decode", ids, join(WordsFrom(pieces, <<>>, <<>>)))
           ELSE IF \E k \in DOMAIN tokens : tokens[k].t # "bytes"
                THEN Raise("decode", ids)
                ELSE Return("decode", ids, Utf8Decode(Flatten(pieces)))

\* The id sequences handed to decode: every id of the mapper, one below and
\* one above its range.
DecodeInputs == SeqsUpTo((-1)..Cardinality(DOMAIN id_to_token), MaxIds)

\* a caller calls encode(text)
Encode ==
  /\ pc = "idle" /\ op.name = "none"
  /\ \E text \in Texts : op' = encode(text)
  /\ UNCHANGED <<variant, num_merges, token_to_id, id_to_token, _bpe_vocab, merges,
                 pair2rank, pc, iter, corpus, pair_counts, best_pair, train_calls,
                 seen_atoms>>

\* a caller calls decode(ids)
Decode ==
  /\ pc = "idle" /\ op.name = "none"
  /\ \E ids \in DecodeInputs : op' = decode(ids)
  /\ UNCHANGED <<variant, num_merges, token_to_id, id_to_token, _bpe_vocab, merges,
                 pair2rank, pc, iter, corpus, pair_counts, best_pair, train_calls,
                 seen_atoms>>

\* the caller takes the result (or the error) of its call
CallReturns ==
  /\ op.name # "none"
  /\ op' = NoCall
  /\ UNCHANGED <<variant, num_merges, token_to_id, id_to_token, _bpe_vocab, merges,
                 pair2rank, pc, iter, corpus, pair_counts, best_pair, train_calls,
                 seen_atoms>>

Next ==
  \/ TrainBegin
  \/ TrainMerge
  \/ TrainBreakNoPairs
  \/ TrainBreakSingleton
  \/ TrainExhausted
  \/ TrainFinish
  \/ Encode
  \/ Decode
  \/ CallReturns

Spec == Init /\ [][Next]_vars

\* ================================================================ claims
\* train has run to its end at least once and no train call is running
Trained == pc = "idle" /\ train_calls > 0

\* The symbols of the trained vocabulary: the tokens after the special ones.
VocabSymbols ==
  {id_to_token[i].s : i \in {j \in DOMAIN id_to_token : j >= Len(SPECIAL_TOKENS)}}

RECURSIVE Composable(_, _)
\* s is a concatenation of members of S
Composable(s, S) ==
  \/ s = <<>>
  \/ \E k \in 1..Len(s) :
       SubSeq(s, 1, k) \in S /\ Composable(SubSeq(s, k + 1, Len(s)), S)

\* C1: byte alphabet, trained: for a text whose normalized UTF-8 bytes are a
\* concatenation of vocabulary symbols, decode(encode(text)) = normalize(text).
C1_ByteRoundTrip ==
  ( /\ variant = "byte" /\ Trained /\ op.name = "encode"
    /\ Composable(Utf8Encode(normalize(op.arg)), VocabSymbols) )
  => /\ ~op.raised
     /\ LET back == decode(op.out[1])
        IN  ~back.raised /\ back.out = <<normalize(op.arg)>>

\* C2: character alphabet, trained: for a text each of whose words, followed
\* by "</w>", is a concatenation of vocabulary symbols, decode(encode(text))
\* is the words of normalize(text) joined by single spaces.
C2_CharRoundTrip ==
  ( /\ variant = "char" /\ Trained /\ op.name = "encode"
    /\ \A w \in Range(split(normalize(op.arg))) :
          Composable(w \o MARKER, VocabSymbols) )
  => /\ ~op.raised
     /\ LET back == decode(op.out[1])
        IN  ~back.raised /\ back.out = <<join(split(normalize(op.arg)))>>

\* p <= q for two pairs, compared as Python compares 2-tuples of str / bytes
PairLexLeq(p, q) ==
  \/ p = q
  \/ LexLess(p[1], q[1])
  \/ p[1] = q[1] /\ LexLess(p[2], q[2])

\* an iteration of train's loop has just appended best_pair to merges
JustMerged == pc = "loop" /\ best_pair # <<>>

C4_MergeCountBound == Len(merges) <= num_merges

\* C5: after train the special tokens hold ids 0, 1, 2, 3 and token_to_id
\* and id_to_token are inverse bijections.
C5_MapperWellFormed ==
  Trained =>
    /\ \A i \in DOMAIN SPECIAL_TOKENS :
         /\ SPECIAL_TOKENS[i] \in DOMAIN token_to_id
         /\ token_to_id[SPECIAL_TOKENS[i]] = i - 1
    /\ \A tok \in DOMAIN token_to_id :
         /\ token_to_id[tok] \in DOMAIN id_to_token
         /\ id_to_token[token_to_id[tok]] = tok
    /\ \A idx \in DOMAIN id_to_token :
         /\ id_to_token[idx] \in DOMAIN token_to_id
         /\ token_to_id[id_to_token[idx]] = idx

\* C6: byte alphabet, after train: every byte of a normalized, UTF-8-encoded
\* line of the corpus is a length-1 symbol of token_to_id.
C6_AtomicByteCoverage ==
  (variant = "byte" /\ Trained) =>
    \A a \in CorpusAtoms(corpus) : Bytes(a) \in DOMAIN token_to_id

\* a token of encode that is one atomic symbol no training corpus held
UnseenAtom(tok) ==
  tok \notin {BOS, EOS} /\ Len(tok.s) = 1 /\ tok.s \notin seen_atoms

\* The atomic symbols of a text, in order.
TextAtoms(text) ==
  IF variant = "char" THEN Atoms(Flatten(split(normalize(text))))
  ELSE Atoms(Utf8Encode(normalize(text)))

\* C7: trained: encode raises for no text; every atomic symbol of the text
\* that no training corpus held stays a token of its own, in order, and the
\* id at that token's position is the <unk> id.
C7_UnknownHandling ==
  (Trained /\ op.name = "encode") =>
    /\ ~op.raised
    /\ LET tokens == EncodeTokens(op.arg)
           ids    == op.out[1]
       IN  /\ Len(ids) = Len(tokens)
           /\ \A k \in DOMAIN tokens :
                UnseenAtom(tokens[k]) => ids[k] = token_to_id[UNK]
           /\ LET unseen == SelectSeq(tokens, UnseenAtom)
              IN  [k \in DOMAIN unseen |-> unseen[k].s]
                    = SelectSeq(TextAtoms(op.arg), LAMBDA a : a \notin seen_atoms)

\* C7 witness: encode has returned for a text with a symbol never trained on
\* next to a token of the vocabulary.
C7_UnseenWitness ==
  /\ Trained /\ op.name = "encode" /\ ~op.raised
  /\ \E a \in Range(TextAtoms(op.arg)) : a \notin seen_atoms
  /\ \E k \in DOMAIN op.out[1] : op.out[1][k] >= Len(SPECIAL_TOKENS)

\* C8: before any train call, encode and decode fail with an error and return
\* nothing, and token_to_id, id_to_token, merges and pair2rank stay empty.
C8_PreconditionError ==
  train_calls = 0 =>
    /\ op.name # "none" => op.raised /\ op.out = <<>>
    /\ DOMAIN token_to_id = {} /\ DOMAIN id_to_token = {}
    /\ merges = <<>> /\ DOMAIN pair2rank = {}

\* C8 witness: encode of a non-empty text has failed on an untrained instance.
C8_UntrainedEncodeWitness ==
  train_calls = 0 /\ op.name = "encode" /\ op.arg # <<>> /\ op.raised

\* C9: after train, pair2rank has Len(merges) entries and gives merges[i]
\* the rank i (counting from 0).
C9_RankTableDense ==
  Trained =>
    /\ Cardinality(DOMAIN pair2rank) = Len(merges)
    /\ \A i \in DOMAIN merges :
         merges[i] \in DOMAIN pair2rank /\ pair2rank[merges[i]] = i - 1

\* The symbols of the ids that are in the mapper's range and name no special
\* token.
KeptPieces(ids) ==
  LET kept == SelectSeq(ids, LAMBDA i : /\ i \in DOMAIN id_to_token
                                         /\ id_to_token[i] \notin {PAD, UNK, BOS, EOS})
  IN  [k \in DOMAIN kept |-> id_to_token[kept[k]].s]

\* C10: trained: decode raises for no id sequence, and its text is the one
\* rebuilt from the ids in range that name no special token (the ids out of
\* range and the four special tokens add nothing).
C10_DecodeTotal ==
  (Trained /\ op.name = "decode") =>
    /\ ~op.raised
    /\ op.out = << IF variant = "char"
                   THEN join(WordsFrom(KeptPieces(op.arg), <<>>, <<>>))
                   ELSE Utf8Decode(Flatten(KeptPieces(op.arg))) >>

\* C10 witness: decode has returned a non-empty text for ids one of which is
\* out of range.
C10_OutOfRangeWitness ==
  /\ Trained /\ op.name = "decode" /\ ~op.raised
  /\ \E k \in DOMAIN op.arg : op.arg[k] \notin DOMAIN id_to_token
  /\ op.out # <<<<>>>>

\* The units encode segments: the words of the normalized text, or its bytes
\* as one unit.
Units(text) ==
  IF variant = "char" THEN split(normalize(text))
  ELSE <<Utf8Encode(normalize(text))>>

\* The segmenter of the instance's class.
SegmentUnit(u) ==
  IF variant = "char" THEN _encode_word(u) ELSE _encode_bytes(u)

\* The symbols a unit starts from.
UnitSymbols(u) == IF variant = "char" THEN WordSymbols(u) ELSE Atoms(u)

\* no two adjacent symbols form a key of pair2rank
NoRankedPair(symbols) ==
  \A i \in 1..(Len(symbols) - 1) :
    <<symbols[i], symbols[i + 1]>> \notin DOMAIN pair2rank

\* C11: whatever the rank table, the segmentation of each unit of an encoded
\* text holds no adjacent pair that is a key of pair2rank, and the merge loop
\* applied to it again returns it unchanged.
C11_SegmentationFixedPoint ==
  op.name = "encode" =>
    \A u \in Range(Units(op.arg)) :
      LET out == SegmentUnit(u)
      IN  NoRankedPair(out) /\ Segment(out) = out

\* C11 witness: encode has returned for a text one unit of which took two
\* merges or more to segment.
C11_TwoMergesWitness ==
  /\ Trained /\ op.name = "encode" /\ ~op.raised
  /\ \E u \in Range(Units(op.arg)) :
       Len(SegmentUnit(u)) + 2 <= Len(UnitSymbols(u))

\* the slice symbols[a:b] of a list, positions counted from 1
Slice(symbols, a, b) == [k \in 1..(b - a + 1) |-> symbols[a + k - 1]]

RECURSIVE RefSegment(_)
\* The greedy-by-rank procedure: while some adjacent pair is a key of
\* pair2rank, take the candidate of lowest rank, leftmost among equal ranks,
\* and replace that one occurrence by its merged symbol.
RefSegment(symbols) ==
  LET cands == Candidates(symbols)
  IN  IF cands = {} THEN symbols
      ELSE LET i == MinCandidate(cands)[2]
           IN  RefSegment(Slice(symbols, 1, i - 1)
                            \o <<symbols[i] \o symbols[i + 1]>>
                            \o Slice(symbols, i + 2, Len(symbols)))

\* C12: whatever the rank table, the segmentation of each unit of an encoded
\* text equals the output of the greedy-by-rank procedure that replaces one
\* occurrence per iteration.
C12_SegmenterIsGreedyByRank ==
  op.name = "encode" =>
    \A u \in Range(Units(op.arg)) :
      SegmentUnit(u) = RefSegment(UnitSymbols(u))

RECURSIVE FreqOf(_, _)
\* the total frequency a vocabulary attaches to a concatenated content
FreqOf(content, bpe_vocab) ==
  IF bpe_vocab = <<>> THEN 0
  ELSE (IF Flatten(Head(bpe_vocab).k) = content THEN Head(bpe_vocab).v ELSE 0)
         + FreqOf(content, Tail(bpe_vocab))

\* the concatenated contents of the word forms of a vocabulary
Contents(bpe_vocab) == {Flatten(bpe_vocab[i].k) : i \in DOMAIN bpe_vocab}

\* the pair's two symbols are adjacent somewhere in the word
HasAdjacent(pair, word) ==
  \E i \in 1..(Len(word) - 1) : word[i] = pair[1] /\ word[i + 1] = pair[2]

\* new_word is old_word with neighbouring symbols joined: same content, and
\* every symbol of new_word is a run of symbols of old_word
Coarsens(new_word, old_word) ==
  /\ Flatten(new_word) = Flatten(old_word)
  /\ Len(new_word) <= Len(old_word)
  /\ \A j \in DOMAIN new_word :
       \E a \in DOMAIN old_word, b \in DOMAIN old_word :
         /\ a <= b
         /\ Flatten(Slice(old_word, 1, a - 1)) = Flatten(Slice(new_word, 1, j - 1))
         /\ Flatten(Slice(old_word, a, b)) = new_word[j]

\* what one merge step of train does to the word forms
MergeStepCoarsens ==
  merges' # merges =>
    LET pair == Last(merges')
    IN  /\ \A i \in DOMAIN _bpe_vocab :
              \E j \in DOMAIN _bpe_vocab' :
                Coarsens(_bpe_vocab'[j].k, _bpe_vocab[i].k)
        /\ \A j \in DOMAIN _bpe_vocab' :
              \E i \in DOMAIN _bpe_vocab :
                Coarsens(_bpe_vocab'[j].k, _bpe_vocab[i].k)
        /\ \A content \in Contents(_bpe_vocab) \cup Contents(_bpe_vocab') :
              FreqOf(content, _bpe_vocab') = FreqOf(content, _bpe_vocab)
        /\ \A j \in DOMAIN _bpe_vocab' : ~HasAdjacent(pair, _bpe_vocab'[j].k)

\* C13: every merge step of train keeps the concatenated content of each
\* word form (symbols are only joined, none reordered or dropped), keeps the
\* total frequency of each content, and leaves no word form with the merged
\* pair's two symbols adjacent.
C13_MergeOnlyCoarsens == [][MergeStepCoarsens]_vars

\* C13 witness: a merge step has rewritten a word form in which occurrences
\* of the pair overlapped (a,a,a -> aa,a), the merged symbol now standing
\* before the pair's second symbol.
C13_OverlapWitness ==
  /\ JustMerged
  /\ best_pair[1][1] = best_pair[1][2]
  /\ \E j \in DOMAIN _bpe_vocab :
       HasAdjacent(<<best_pair[1][1] \o best_pair[1][2], best_pair[1][2]>>,
                   _bpe_vocab[j].k)

\* The units of a training corpus: its words, or its non-empty normalized
\* lines as bytes.
CorpusUnits(lines) ==
  UNION { Range(Units(lines[i])) \ {<<>>} : i \in DOMAIN lines }

\* C14: after one train call on a fresh instance, the segmentation of every
\* unit of the training corpus is a key of the final _bpe_vocab, and encode
\* of a line of the corpus returns no <unk> id.
C14_TrainEncodeAgreement ==
  (Trained /\ train_calls = 1) =>
    /\ \A u \in CorpusUnits(corpus) :
         \E j \in DOMAIN _bpe_vocab : _bpe_vocab[j].k = SegmentUnit(u)
    /\ \A i \in DOMAIN corpus :
         LET call == encode(corpus[i])
         IN  ~call.raised /\ token_to_id[UNK] \notin Range(call.out[1])

====
